---- MODULE Spec2Model ----
(***************************************************************************)
(* Model of ui/litellm-dashboard/src/app/page.tsx: the CreateKeyPage       *)
(* component (session bootstrap, reference-data loader, page router) and   *)
(* its helpers getCookie and formatUserRole.                               *)
(*                                                                         *)
(* JavaScript strings that the code takes apart (cookies, query strings,   *)
(* role names, page identifiers) are sequences of one-character strings,   *)
(* so that split, startsWith, toLowerCase and the URL encoding are         *)
(* computed character by character.  null and undefined are the two        *)
(* one-element sequences Null and Undefined, which no JavaScript string    *)
(* equals because their only element is longer than one character.        *)
(***************************************************************************)
EXTENDS Integers, Sequences, FiniteSets, Bags, TLC

Null == <<"<null>">>
Undefined == <<"<undefined>">>

\* JavaScript truthiness of a string-or-null value: if (v), v ? a : b, v || d
Truthy(v) == v # Null /\ v # Undefined /\ v # <<>>

-----------------------------------------------------------------------------
(* String literals of the source *)

P_api_keys == <<"a", "p", "i", "-", "k", "e", "y", "s">>
P_models == <<"m", "o", "d", "e", "l", "s">>
P_llm_playground == <<"l", "l", "m", "-", "p", "l", "a", "y", "g", "r", "o", "u", "n", "d">>
P_users == <<"u", "s", "e", "r", "s">>
P_teams == <<"t", "e", "a", "m", "s">>
P_organizations == <<"o", "r", "g", "a", "n", "i", "z", "a", "t", "i", "o", "n", "s">>
P_admin_panel == <<"a", "d", "m", "i", "n", "-", "p", "a", "n", "e", "l">>
P_api_ref == <<"a", "p", "i", "_", "r", "e", "f">>
P_settings == <<"s", "e", "t", "t", "i", "n", "g", "s">>
P_budgets == <<"b", "u", "d", "g", "e", "t", "s">>
P_guardrails == <<"g", "u", "a", "r", "d", "r", "a", "i", "l", "s">>
P_general_settings == <<"g", "e", "n", "e", "r", "a", "l", "-", "s", "e", "t", "t", "i", "n", "g", "s">>
P_model_hub == <<"m", "o", "d", "e", "l", "-", "h", "u", "b">>
P_caching == <<"c", "a", "c", "h", "i", "n", "g">>
P_pass_through_settings == <<"p", "a", "s", "s", "-", "t", "h", "r", "o", "u", "g", "h", "-", "s", "e", "t", "t", "i", "n", "g", "s">>
P_logs == <<"l", "o", "g", "s">>
P_mcp_tools == <<"m", "c", "p", "-", "t", "o", "o", "l", "s">>
P_tag_management == <<"t", "a", "g", "-", "m", "a", "n", "a", "g", "e", "m", "e", "n", "t">>
P_new_usage == <<"n", "e", "w", "_", "u", "s", "a", "g", "e">>
P_usage == <<"u", "s", "a", "g", "e">>

R_app_owner == <<"a", "p", "p", "_", "o", "w", "n", "e", "r">>
R_demo_app_owner == <<"d", "e", "m", "o", "_", "a", "p", "p", "_", "o", "w", "n", "e", "r">>
R_app_admin == <<"a", "p", "p", "_", "a", "d", "m", "i", "n">>
R_proxy_admin == <<"p", "r", "o", "x", "y", "_", "a", "d", "m", "i", "n">>
R_proxy_admin_viewer == <<"p", "r", "o", "x", "y", "_", "a", "d", "m", "i", "n", "_", "v", "i", "e", "w", "e", "r">>
R_org_admin == <<"o", "r", "g", "_", "a", "d", "m", "i", "n">>
R_internal_user == <<"i", "n", "t", "e", "r", "n", "a", "l", "_", "u", "s", "e", "r">>
R_internal_viewer == <<"i", "n", "t", "e", "r", "n", "a", "l", "_", "v", "i", "e", "w", "e", "r">>
R_app_user == <<"a", "p", "p", "_", "u", "s", "e", "r">>

N_page == <<"p", "a", "g", "e">>
N_userID == <<"u", "s", "e", "r", "I", "D">>
N_invitation_id == <<"i", "n", "v", "i", "t", "a", "t", "i", "o", "n", "_", "i", "d">>
N_token == <<"t", "o", "k", "e", "n">>

-----------------------------------------------------------------------------
(* String primitives: String.prototype.startsWith, split, toLowerCase *)

StartsWith(s, p) == Len(s) >= Len(p) /\ SubSeq(s, 1, Len(p)) = p

Drop(s, n) == SubSeq(s, n + 1, Len(s))

\* the least element of a non-empty set of numbers
Min(S) == CHOOSE i \in S : \A j \in S : i <= j

\* the positions from from on at which sep starts in s
Matches(s, sep, from) ==
    { i \in from..(Len(s) - Len(sep) + 1) :
         s[i] = sep[1] /\ SubSeq(s, i, i + Len(sep) - 1) = sep }

RECURSIVE SplitAt(_, _, _)
\* the pieces of s from position from on, cut at each next separator
SplitAt(s, sep, from) ==
    LET found == Matches(s, sep, from)
        at    == Min(found)
    IN  IF found = {} THEN <<SubSeq(s, from, Len(s))>>
        ELSE <<SubSeq(s, from, at - 1)>> \o SplitAt(s, sep, at + Len(sep))

\* s.split(sep) for a non-empty separator
Split(s, sep) == SplitAt(s, sep, 1)

UpperChars == <<"A", "B", "C", "D", "E", "F", "G", "H", "I", "J", "K", "L", "M",
                "N", "O", "P", "Q", "R", "S", "T", "U", "V", "W", "X", "Y", "Z">>

LowerChars == <<"a", "b", "c", "d", "e", "f", "g", "h", "i", "j", "k", "l", "m",
                "n", "o", "p", "q", "r", "s", "t", "u", "v", "w", "x", "y", "z">>

LowerChar(c) ==
    IF \E i \in 1..Len(UpperChars) : UpperChars[i] = c
    THEN LowerChars[CHOOSE i \in 1..Len(UpperChars) : UpperChars[i] = c]
    ELSE c

UpperChar(c) ==
    IF \E i \in 1..Len(LowerChars) : LowerChars[i] = c
    THEN UpperChars[CHOOSE i \in 1..Len(LowerChars) : LowerChars[i] = c]
    ELSE c

\* s.toLowerCase()
ToLowerCase(s) == [i \in 1..Len(s) |-> LowerChar(s[i])]

-----------------------------------------------------------------------------
(* getCookie, over the value of document.cookie *)

\* the first element of rows that starts with prefix, Undefined when none does
RECURSIVE Find(_, _)
Find(rows, prefix) ==
    IF rows = <<>> THEN Undefined
    ELSE IF StartsWith(Head(rows), prefix) THEN Head(rows)
    ELSE Find(Tail(rows), prefix)

getCookie(jar, name) ==
    LET cookieValue == Find(Split(jar, <<";", " ">>), name \o <<"=">>)
    IN  IF Truthy(cookieValue) THEN Split(cookieValue, <<"=">>)[2] ELSE Null

-----------------------------------------------------------------------------
(* formatUserRole *)

\* the lookup on the role as given, without toLowerCase
formatUserRole_CaseSensitive(role) ==
    IF ~Truthy(role) THEN "Undefined Role"
    ELSE CASE role = R_app_owner -> "App Owner"
           [] role = R_demo_app_owner -> "App Owner"
           [] role = R_app_admin -> "Admin"
           [] role = R_proxy_admin -> "Admin"
           [] role = R_proxy_admin_viewer -> "Admin Viewer"
           [] role = R_org_admin -> "Org Admin"
           [] role = R_internal_user -> "Internal User"
           [] role = R_internal_viewer -> "Internal Viewer"
           [] role = R_app_user -> "App User"
           [] OTHER -> "Unknown Role"

\* formatUserRole(userRole)
formatUserRole(role) ==
    IF ~Truthy(role) THEN "Undefined Role"
    ELSE LET r == ToLowerCase(role)
         IN  CASE r = R_app_owner -> "App Owner"
               [] r = R_demo_app_owner -> "App Owner"
               [] r = R_app_admin -> "Admin"
               [] r = R_proxy_admin -> "Admin"
               [] r = R_proxy_admin_viewer -> "Admin Viewer"
               [] r = R_org_admin -> "Org Admin"
               [] r = R_internal_user -> "Internal User"
               [] r = R_internal_viewer -> "Internal Viewer"
               [] r = R_app_user -> "App User"
               [] OTHER -> "Unknown Role"

-----------------------------------------------------------------------------
(* URLSearchParams: a list of [name, value] pairs, with the                  *)
(* application/x-www-form-urlencoded parser and serializer of the URL        *)
(* standard that new URLSearchParams(string) and toString() run             *)

Digits == <<"0", "1", "2", "3", "4", "5", "6", "7", "8", "9">>

InSeq(c, s) == \E i \in 1..Len(s) : s[i] = c

\* bytes the serializer leaves as they are
UnreservedChars ==
    {"*", "-", ".", "_"} \cup { LowerChars[i] : i \in 1..Len(LowerChars) }
        \cup { UpperChars[i] : i \in 1..Len(UpperChars) }
        \cup { Digits[i] : i \in 1..Len(Digits) }

Unreserved(c) == c \in UnreservedChars

\* the characters of the model's alphabet that are percent-encoded, each with
\* the two hexadecimal digits of its byte
PctTable ==
    << <<"%", "2", "5">>, <<"&", "2", "6">>, <<"+", "2", "B">>, <<"=", "3", "D">>,
       <<";", "3", "B">>, <<"?", "3", "F">>, <<"#", "2", "3">>, <<" ", "2", "0">> >>

PctEncodeChar(c) ==
    IF Unreserved(c) THEN <<c>>
    ELSE IF c = " " THEN <<"+">>
    ELSE LET e == PctTable[CHOOSE i \in 1..Len(PctTable) : PctTable[i][1] = c]
         IN  <<"%", e[2], e[3]>>

RECURSIVE UrlEncodeAt(_, _)
\* s from position from on, each character outside the unreserved ones
\* replaced by its code
UrlEncodeAt(s, from) ==
    LET found == { i \in from..Len(s) : ~Unreserved(s[i]) }
        at    == Min(found)
    IN  IF found = {} THEN SubSeq(s, from, Len(s))
        ELSE SubSeq(s, from, at - 1) \o PctEncodeChar(s[at]) \o UrlEncodeAt(s, at + 1)

UrlEncode(s) == UrlEncodeAt(s, 1)

HexChars ==
    { Digits[i] : i \in 1..Len(Digits) }
        \cup {"A", "B", "C", "D", "E", "F", "a", "b", "c", "d", "e", "f"}

IsHex(c) == c \in HexChars

\* the character whose byte is written h1 h2; bytes outside the model's
\* alphabet all read as the replacement mark
PctByte(h1, h2) ==
    IF \E i \in 1..Len(PctTable) :
          PctTable[i][2] = h1 /\ PctTable[i][3] = UpperChar(h2)
    THEN PctTable[CHOOSE i \in 1..Len(PctTable) :
                     PctTable[i][2] = h1 /\ PctTable[i][3] = UpperChar(h2)][1]
    ELSE "~"

RECURSIVE PercentDecodeAt(_, _)
\* s from position from on, each "%" that two hexadecimal digits follow
\* replaced with them by the byte they write
PercentDecodeAt(s, from) ==
    LET found == Matches(s, <<"%">>, from)
        at    == Min(found)
    IN  IF found = {} THEN SubSeq(s, from, Len(s))
        ELSE IF at + 2 <= Len(s) /\ IsHex(s[at + 1]) /\ IsHex(s[at + 2])
             THEN SubSeq(s, from, at - 1) \o <<PctByte(s[at + 1], s[at + 2])>>
                      \o PercentDecodeAt(s, at + 3)
             ELSE SubSeq(s, from, at) \o PercentDecodeAt(s, at + 1)

PercentDecode(s) == PercentDecodeAt(s, 1)

PlusToSpace(s) ==
    IF InSeq("+", s) THEN [i \in 1..Len(s) |-> IF s[i] = "+" THEN " " ELSE s[i]] ELSE s

UrlDecode(s) == PercentDecode(PlusToSpace(s))

\* one name=value piece of a query string, cut at its first "="
ParsePair(piece) ==
    LET found == Matches(piece, <<"=">>, 1)
        at    == Min(found)
    IN  IF found = {} THEN [name |-> UrlDecode(piece), value |-> <<>>]
        ELSE [name |-> UrlDecode(SubSeq(piece, 1, at - 1)),
              value |-> UrlDecode(Drop(piece, at))]

NonEmpty(piece) == piece # <<>>

\* new URLSearchParams(query), query without its leading "?": one pair for
\* each non-empty piece between the "&"
ParseQuery(query) ==
    LET pieces == SelectSeq(Split(query, <<"&">>), NonEmpty)
    IN  [i \in 1..Len(pieces) |-> ParsePair(pieces[i])]

RECURSIVE JoinPairs(_)
JoinPairs(params) ==
    IF params = <<>> THEN <<>>
    ELSE UrlEncode(Head(params).name) \o <<"=">> \o UrlEncode(Head(params).value)
            \o (IF Len(params) > 1 THEN <<"&">> ELSE <<>>) \o JoinPairs(Tail(params))

\* params.toString()
Serialize(params) == JoinPairs(params)

\* params.get(name): the first value under name, or null
RECURSIVE Get(_, _)
Get(params, name) ==
    IF params = <<>> THEN Null
    ELSE IF Head(params).name = name THEN Head(params).value
    ELSE Get(Tail(params), name)

RECURSIVE Without(_, _)
Without(params, name) ==
    IF params = <<>> THEN <<>>
    ELSE (IF Head(params).name = name THEN <<>> ELSE <<Head(params)>>)
            \o Without(Tail(params), name)

\* params.append(name, value) in the place of params.set(name, value)
SetParam_Append(params, name, value) == params \o <<[name |-> name, value |-> value]>>

\* params.set(name, value): the first pair under name takes the value and the
\* later ones are removed; with no such pair, one is appended
RECURSIVE SetParam(_, _, _)
SetParam(params, name, value) ==
    IF params = <<>> THEN <<[name |-> name, value |-> value]>>
    ELSE IF Head(params).name = name
         THEN <<[name |-> name, value |-> value]>> \o Without(Tail(params), name)
         ELSE <<Head(params)>> \o SetParam(Tail(params), name, value)

-----------------------------------------------------------------------------
(* The inputs: cookie jars, tokens and their payloads, query strings *)

\* the tokens a cookie can carry; jwtDecode reads a payload out of the first
\* five and throws on any other string
T_admin == <<"A">>
T_viewer == <<"V">>
T_viewerNoKey == <<"W">>
T_noRole == <<"R">>
T_nullPayload == <<"N">>
T_malformed == <<"X">>

S_key == <<"s", "k", "-", "1">>
S_email == <<"a", "@", "b">>
S_password == <<"u", "s", "e", "r", "n", "a", "m", "e", "_", "p", "a", "s", "s", "w", "o", "r", "d">>
S_sso == <<"s", "s", "o">>
S_header == <<"X", "-", "K", "e", "y">>
S_viewerCaps == <<"P", "R", "O", "X", "Y", "_", "A", "D", "M", "I", "N", "_", "V", "I", "E", "W", "E", "R">>
S_user1 == <<"u", "1">>
S_invite1 == <<"i", "1">>

Payload(key, role, email, login, premium, disabled, header) ==
    [kind |-> "object", key |-> key, user_role |-> role, user_email |-> email,
     login_method |-> login, premium_user |-> premium,
     disabled_non_admin_personal_key_creation |-> disabled,
     auth_header_name |-> header]

NoPayload(kind) ==
    [kind |-> kind, key |-> Undefined, user_role |-> Undefined,
     user_email |-> Undefined, login_method |-> Undefined, premium_user |-> "undefined",
     disabled_non_admin_personal_key_creation |-> "undefined",
     auth_header_name |-> Undefined]

\* jwtDecode(token): kind "object" with the payload's fields, kind "null" for
\* a payload that is the JSON null, kind "throws" for a string that is no token
jwtDecode(tok) ==
    CASE tok = T_admin ->
            Payload(S_key, R_proxy_admin, S_email, S_password, "true", "false", S_header)
      [] tok = T_viewer ->
            Payload(S_key, R_proxy_admin_viewer, Undefined, S_sso, "undefined", "true", Undefined)
      [] tok = T_viewerNoKey ->
            Payload(Undefined, S_viewerCaps, S_email, Undefined, "false", "undefined", Undefined)
      [] tok = T_noRole ->
            Payload(S_key, Undefined, Undefined, S_password, "true", "false", Undefined)
      [] tok = T_nullPayload -> NoPayload("null")
      [] OTHER -> NoPayload("throws")

TokenCookie(tok) == N_token \o <<"=">> \o tok

\* values of document.cookie
Jars ==
    { <<>>,
      TokenCookie(T_admin),
      <<"a", "=", "1", ";", " ">> \o TokenCookie(T_viewer),
      TokenCookie(T_viewerNoKey),
      TokenCookie(T_noRole) \o <<"=", "=">>,
      TokenCookie(T_nullPayload),
      TokenCookie(T_malformed),
      TokenCookie(<<>>) }

\* the jars of a visitor who holds no access token
RouterJars == { <<"x">> \o TokenCookie(T_admin), TokenCookie(T_viewerNoKey) }

Param(name, value) == name \o <<"=">> \o value

\* query strings the page can be opened with (without the leading "?")
Searches ==
    { <<>>,
      Param(N_invitation_id, <<>>) \o <<"&">> \o Param(N_page, P_organizations)
          \o <<"&">> \o Param(N_userID, <<"u", "%", "3", "d", "1">>)
          \o <<"&">> \o Param(N_page, P_users) \o <<"&">> \o Param(N_userID, <<"u", "2">>),
      Param(N_invitation_id, S_invite1) \o <<"&">> \o Param(N_userID, S_user1) }

RouterSearches ==
    { <<>>,
      Param(N_page, P_teams) \o <<"&">> \o Param(N_userID, S_user1),
      Param(N_userID, S_user1) \o <<"&">> \o Param(N_page, <<>>),
      Param(N_page, <<"a", "+", "b", "%", "2", "6">>),
      Param(N_userID, S_user1) \o <<"&">> \o Param(N_invitation_id, <<>>),
      Param(N_page, P_organizations) \o <<"&">> \o Param(N_invitation_id, S_invite1) }

\* the page identifiers the render names
KnownPages ==
    { P_api_keys, P_models, P_llm_playground, P_users, P_teams, P_organizations,
      P_admin_panel, P_api_ref, P_settings, P_budgets, P_guardrails,
      P_general_settings, P_model_hub, P_caching, P_pass_through_settings, P_logs,
      P_mcp_tools, P_tag_management, P_new_usage }

\* arguments the sidebar hands to updatePage: the known identifiers, the
\* identifier of the usage page, an unknown one, the empty string and one
\* made of the characters the query-string encoding treats specially
P_special == <<"a", "&", "b", "=", " ", "+", "%", "2", "6">>

PageInputs == KnownPages \cup { P_usage, <<"z", "z">>, <<>>, P_special }

\* a few of them
SidebarPages == { P_api_keys, P_special }

-----------------------------------------------------------------------------
(* The component state *)

VARIABLES
    jar,            \* document.cookie
    search,         \* the query string of window.location, without its "?"
    searchParams,   \* what useSearchParams() returns to the render
    historySync,    \* whether the router of this build observes pushState
    mounted,        \* the effects of the first commit have run
    failed,         \* an effect threw: the component is unmounted
    token, page, accessToken,
    userRole, premiumUser, disabledPersonalKeyCreation, userEmail, showSSOBanner,
    teams, keys, organizations, userModels,
    headerName,     \* the networking module's global header name
    tokenDeps,      \* [token] as of the last run of the decode effect
    loaderDeps,     \* [accessToken, userID, userRole] as of the loader's last run
    issued,         \* the fetches the loader's last run started
    pending,        \* the fetches in flight, a bag of requests
    call            \* the call the latest step made, when the step was a call of
                    \* updatePage or of formatUserRole on its own

routerVars == <<search, searchParams, page>>

sessionVars ==
    <<token, accessToken, userRole, premiumUser, disabledPersonalKeyCreation,
      userEmail, showSSOBanner, headerName>>

collectionVars == <<teams, keys, organizations, userModels>>

effectVars == <<mounted, failed, tokenDeps, loaderDeps, issued, pending>>

\* what no step of the component writes
fixedVars == <<jar, historySync>>

vars == <<fixedVars, routerVars, sessionVars, collectionVars, effectVars, call>>

userID == Get(searchParams, N_userID)

invitation_id == Get(searchParams, N_invitation_id)

\* the initializer without its default
InitialPage_NoDefault(params) == Get(params, N_page)

\* the initializer of the page state
InitialPage(params) ==
    IF Truthy(Get(params, N_page)) THEN Get(params, N_page) ELSE P_api_keys

\* the chain of conditionals on page in the render
Panel(pg) ==
    CASE pg = P_api_keys -> "UserDashboard"
      [] pg = P_models -> "ModelDashboard"
      [] pg = P_llm_playground -> "ChatUI"
      [] pg = P_users -> "ViewUserDashboard"
      [] pg = P_teams -> "Teams"
      [] pg = P_organizations -> "Organizations"
      [] pg = P_admin_panel -> "AdminPanel"
      [] pg = P_api_ref -> "APIRef"
      [] pg = P_settings -> "Settings"
      [] pg = P_budgets -> "BudgetPanel"
      [] pg = P_guardrails -> "GuardrailsPanel"
      [] pg = P_general_settings -> "GeneralSettings"
      [] pg = P_model_hub -> "ModelHub"
      [] pg = P_caching -> "CacheDashboard"
      [] pg = P_pass_through_settings -> "PassThroughSettings"
      [] pg = P_logs -> "SpendLogsTable"
      [] pg = P_mcp_tools -> "MCPToolsViewer"
      [] pg = P_tag_management -> "TagManagement"
      [] pg = P_new_usage -> "NewUsagePage"
      [] OTHER -> "Usage"

\* the render taking the invitation branch for any invitation_id parameter,
\* the empty one included
View_AnyInvitation(inv, pg) ==
    IF inv # Null
    THEN [navbar |-> FALSE, sidebar |-> FALSE, panel |-> "UserDashboard"]
    ELSE [navbar |-> TRUE, sidebar |-> TRUE, panel |-> Panel(pg)]

\* what the component returns: the panel alone under an invitation, otherwise
\* the navbar, the sidebar and the panel of the page
View(inv, pg) ==
    IF Truthy(inv)
    THEN [navbar |-> FALSE, sidebar |-> FALSE, panel |-> "UserDashboard"]
    ELSE [navbar |-> TRUE, sidebar |-> TRUE, panel |-> Panel(pg)]

Render == View(invitation_id, page)

NoCall == [fn |-> "", arg |-> Null, ret |-> ""]

\* the state of the first render, the page opened with one of the cookie jars
\* and one of the query strings
Start(jars, searches) ==
    /\ jar \in jars
    /\ search \in searches
    /\ searchParams = ParseQuery(search)
    /\ historySync \in BOOLEAN
    /\ mounted = FALSE
    /\ failed = FALSE
    /\ token = Null
    /\ page = InitialPage(searchParams)
    /\ accessToken = Null
    /\ userRole = ""
    /\ premiumUser = "false"
    /\ disabledPersonalKeyCreation = "false"
    /\ userEmail = Null
    /\ showSSOBanner = TRUE
    /\ teams = Null
    /\ keys = Null
    /\ organizations = <<>>
    /\ userModels = <<>>
    /\ headerName = Null
    /\ tokenDeps = Null
    /\ loaderDeps = <<Null, Null, "">>
    /\ issued = {}
    /\ pending = EmptyBag
    /\ call = NoCall

Init == Start(Jars, Searches)

-----------------------------------------------------------------------------
(* The effects *)

Request(kind, at, uid, role) ==
    [kind |-> kind, accessToken |-> at, userID |-> uid, userRole |-> role]

\* the loader with fetchOrganizations put under the condition of the other two
LoaderRequests_AllGuarded(at, uid, role) ==
    IF Truthy(at) /\ Truthy(uid) /\ role # ""
    THEN { Request("fetchUserModels", at, uid, role),
           Request("fetchTeams", at, uid, role),
           Request("fetchOrganizations", at, Null, "") }
    ELSE {}

\* the calls one run of the reference-data effect makes
LoaderRequests(at, uid, role) ==
    (IF Truthy(at) /\ Truthy(uid) /\ role # ""
        THEN {Request("fetchUserModels", at, uid, role)} ELSE {})
    \cup
    (IF Truthy(at) /\ Truthy(uid) /\ role # ""
        THEN {Request("fetchTeams", at, uid, role)} ELSE {})
    \cup
    (IF Truthy(at) THEN {Request("fetchOrganizations", at, Null, "")} ELSE {})

\* The effects of the first commit, run together in the order of the source:
\* the cookie is read into token; the decode effect sees the token of the
\* first render, null, and returns; the reference-data effect sees the
\* accessToken of the first render, null, and fetches nothing.
MountEffects ==
    /\ ~mounted
    /\ mounted' = TRUE
    /\ token' = getCookie(jar, N_token)
    /\ tokenDeps' = token
    /\ loaderDeps' = <<accessToken, userID, userRole>>
    /\ issued' = LoaderRequests(accessToken, userID, userRole)
    /\ pending' = pending (+) SetToBag(issued')
    /\ call' = NoCall
    /\ UNCHANGED <<fixedVars, routerVars, collectionVars, failed>>
    /\ UNCHANGED <<accessToken, userRole, premiumUser, disabledPersonalKeyCreation,
                   userEmail, showSSOBanner, headerName>>

\* the decode effect without the redirection of the viewer
DecodeWrites_NoRedirect(decoded) ==
    /\ accessToken' = decoded.key
    /\ disabledPersonalKeyCreation' = decoded.disabled_non_admin_personal_key_creation
    /\ IF Truthy(decoded.user_role)
       THEN userRole' = formatUserRole(decoded.user_role)
       ELSE UNCHANGED userRole
    /\ UNCHANGED page
    /\ userEmail' = IF Truthy(decoded.user_email) THEN decoded.user_email ELSE userEmail
    /\ showSSOBanner' = IF Truthy(decoded.login_method)
                        THEN decoded.login_method = S_password ELSE showSSOBanner
    /\ premiumUser' = IF decoded.premium_user = "true"
                      THEN decoded.premium_user ELSE premiumUser
    /\ headerName' = IF Truthy(decoded.auth_header_name)
                     THEN decoded.auth_header_name ELSE headerName

\* the decode effect keeping the cookie's token itself as the access token
DecodeWrites_RawToken(decoded) ==
    /\ accessToken' = token
    /\ disabledPersonalKeyCreation' = decoded.disabled_non_admin_personal_key_creation
    /\ IF Truthy(decoded.user_role)
       THEN /\ userRole' = formatUserRole(decoded.user_role)
            /\ page' = IF formatUserRole(decoded.user_role) = "Admin Viewer"
                       THEN P_usage ELSE page
       ELSE UNCHANGED <<userRole, page>>
    /\ userEmail' = IF Truthy(decoded.user_email) THEN decoded.user_email ELSE userEmail
    /\ showSSOBanner' = IF Truthy(decoded.login_method)
                        THEN decoded.login_method = S_password ELSE showSSOBanner
    /\ premiumUser' = IF decoded.premium_user = "true"
                      THEN decoded.premium_user ELSE premiumUser
    /\ headerName' = IF Truthy(decoded.auth_header_name)
                     THEN decoded.auth_header_name ELSE headerName

\* the state the decode effect writes from a decoded payload
DecodeWrites(decoded) ==
    /\ accessToken' = decoded.key
    /\ disabledPersonalKeyCreation' = decoded.disabled_non_admin_personal_key_creation
    /\ IF Truthy(decoded.user_role)
       THEN /\ userRole' = formatUserRole(decoded.user_role)
            /\ page' = IF formatUserRole(decoded.user_role) = "Admin Viewer"
                       THEN P_usage ELSE page
       ELSE UNCHANGED <<userRole, page>>
    /\ userEmail' = IF Truthy(decoded.user_email) THEN decoded.user_email ELSE userEmail
    /\ showSSOBanner' = IF Truthy(decoded.login_method)
                        THEN decoded.login_method = S_password ELSE showSSOBanner
    /\ premiumUser' = IF decoded.premium_user = "true"
                      THEN decoded.premium_user ELSE premiumUser
    /\ headerName' = IF Truthy(decoded.auth_header_name)
                     THEN decoded.auth_header_name ELSE headerName

\* the effect on [token], run by the render that follows a change of token
DecodeEffect ==
    /\ mounted /\ ~failed
    /\ token # tokenDeps
    /\ tokenDeps' = token
    /\ IF ~Truthy(token)
       THEN UNCHANGED <<failed, page, accessToken, userRole, premiumUser,
                        disabledPersonalKeyCreation, userEmail, showSSOBanner, headerName>>
       ELSE LET decoded == jwtDecode(token)
            IN  CASE decoded.kind = "throws" ->
                        /\ failed' = TRUE
                        /\ UNCHANGED <<page, accessToken, userRole, premiumUser,
                                       disabledPersonalKeyCreation, userEmail,
                                       showSSOBanner, headerName>>
                  [] decoded.kind = "null" ->
                        UNCHANGED <<failed, page, accessToken, userRole, premiumUser,
                                    disabledPersonalKeyCreation, userEmail,
                                    showSSOBanner, headerName>>
                  [] OTHER ->
                        /\ DecodeWrites(decoded)
                        /\ UNCHANGED failed
    /\ call' = NoCall
    /\ UNCHANGED <<fixedVars, search, searchParams, token, collectionVars,
                   mounted, loaderDeps, issued, pending>>

\* the effect on [accessToken, userID, userRole], run by the render that
\* follows a change of any of the three
LoaderEffect ==
    /\ mounted /\ ~failed
    /\ <<accessToken, userID, userRole>> # loaderDeps
    /\ loaderDeps' = <<accessToken, userID, userRole>>
    /\ issued' = LoaderRequests(accessToken, userID, userRole)
    /\ pending' = pending (+) SetToBag(issued')
    /\ call' = NoCall
    /\ UNCHANGED <<fixedVars, routerVars, sessionVars, collectionVars,
                   mounted, failed, tokenDeps>>

-----------------------------------------------------------------------------
(* The fetch helpers: each ends by handing the server's answer to the setter *)
(* it was given, or by dropping a failure                                    *)

\* items of the collections, which the component hands on unread
A_models == "gpt"
A_team == "team-1"
A_team2 == "team-2"
A_org == "org-1"
A_key == "key-1"

\* the answers the server can give to a request
Answers(kind) ==
    CASE kind = "fetchUserModels" -> { <<A_models>> }
      [] kind = "fetchTeams" -> { <<A_team>> }
      [] kind = "fetchOrganizations" -> { <<A_org>> }

\* fetchTeams handed setOrganizations in the place of setTeams
Settle_TeamsIntoOrganizations(colls, kind, answer) ==
    CASE kind = "fetchUserModels" -> [colls EXCEPT !.userModels = answer]
      [] kind = "fetchTeams" -> [colls EXCEPT !.organizations = answer]
      [] kind = "fetchOrganizations" -> [colls EXCEPT !.organizations = answer]

\* the collections after the setter of a request of this kind took the answer
Settle(colls, kind, answer) ==
    CASE kind = "fetchUserModels" -> [colls EXCEPT !.userModels = answer]
      [] kind = "fetchTeams" -> [colls EXCEPT !.teams = answer]
      [] kind = "fetchOrganizations" -> [colls EXCEPT !.organizations = answer]

Collections ==
    [teams |-> teams, keys |-> keys, organizations |-> organizations,
     userModels |-> userModels]

FetchComplete(req, answer) ==
    /\ ~failed
    /\ BagIn(req, pending)
    /\ pending' = pending (-) SetToBag({req})
    /\ LET after == Settle(Collections, req.kind, answer)
       IN  /\ teams' = after.teams
           /\ keys' = after.keys
           /\ organizations' = after.organizations
           /\ userModels' = after.userModels
    /\ call' = NoCall
    /\ UNCHANGED <<fixedVars, routerVars, sessionVars,
                   mounted, failed, tokenDeps, loaderDeps, issued>>

FetchFail(req) ==
    /\ ~failed
    /\ BagIn(req, pending)
    /\ pending' = pending (-) SetToBag({req})
    /\ call' = NoCall
    /\ UNCHANGED <<fixedVars, routerVars, sessionVars, collectionVars,
                   mounted, failed, tokenDeps, loaderDeps, issued>>

-----------------------------------------------------------------------------
(* The callbacks handed to the children *)

\* updatePage without its pushState: the page state alone changes
UpdatePage_NoPush(newPage) ==
    /\ mounted /\ ~failed /\ Render.sidebar
    /\ page' = newPage
    /\ call' = [fn |-> "updatePage", arg |-> newPage, ret |-> ""]
    /\ UNCHANGED <<search, searchParams>>
    /\ UNCHANGED <<fixedVars, sessionVars, collectionVars, effectVars>>

\* updatePage building its query string from nothing, not from searchParams
UpdatePage_FreshParams(newPage) ==
    /\ mounted /\ ~failed /\ Render.sidebar
    /\ LET newSearch == Serialize(SetParam(<<>>, N_page, newPage))
       IN  /\ search' = newSearch
           /\ searchParams' = IF historySync THEN ParseQuery(newSearch) ELSE searchParams
    /\ page' = newPage
    /\ call' = [fn |-> "updatePage", arg |-> newPage, ret |-> ""]
    /\ UNCHANGED <<fixedVars, sessionVars, collectionVars, effectVars>>

\* updatePage can be called: the component is on screen and its view has the
\* sidebar, the one child that is handed updatePage
UpdatePageCallable == mounted /\ ~failed /\ Render.sidebar

\* updatePage, the setPage of the sidebar
UpdatePage(newPage) ==
    /\ UpdatePageCallable
    /\ LET newSearchParams == SetParam(searchParams, N_page, newPage)
           newSearch == Serialize(newSearchParams)
       IN  /\ search' = newSearch
           /\ searchParams' = IF historySync THEN ParseQuery(newSearch) ELSE searchParams
    /\ page' = newPage
    /\ call' = [fn |-> "updatePage", arg |-> newPage, ret |-> ""]
    /\ UNCHANGED <<fixedVars, sessionVars, collectionVars, effectVars>>

\* setUserRole, handed to UserDashboard
ChildRoles == { "App User" }

ChildSetUserRole(role) ==
    /\ mounted /\ ~failed
    /\ Render.panel = "UserDashboard"
    /\ userRole' = role
    /\ call' = NoCall
    /\ UNCHANGED <<fixedVars, routerVars, collectionVars, effectVars>>
    /\ UNCHANGED <<token, accessToken, premiumUser, disabledPersonalKeyCreation,
                   userEmail, showSSOBanner, headerName>>

\* setTeams, handed to UserDashboard, Teams and AdminPanel
ChildSetTeams(value) ==
    /\ mounted /\ ~failed
    /\ Render.panel \in {"UserDashboard", "Teams", "AdminPanel"}
    /\ teams' = value
    /\ call' = NoCall
    /\ UNCHANGED <<fixedVars, routerVars, sessionVars, effectVars>>
    /\ UNCHANGED <<keys, organizations, userModels>>

\* setKeys, handed to UserDashboard and ViewUserDashboard
ChildSetKeys(value) ==
    /\ mounted /\ ~failed
    /\ Render.panel \in {"UserDashboard", "ViewUserDashboard"}
    /\ keys' = value
    /\ call' = NoCall
    /\ UNCHANGED <<fixedVars, routerVars, sessionVars, effectVars>>
    /\ UNCHANGED <<teams, organizations, userModels>>

\* setUserEmail, handed to UserDashboard
ChildSetUserEmail(value) ==
    /\ mounted /\ ~failed
    /\ Render.panel = "UserDashboard"
    /\ userEmail' = value
    /\ call' = NoCall
    /\ UNCHANGED <<fixedVars, routerVars, collectionVars, effectVars>>
    /\ UNCHANGED <<token, accessToken, userRole, premiumUser,
                   disabledPersonalKeyCreation, showSSOBanner, headerName>>

\* setOrganizations, handed to Organizations
ChildSetOrganizations(value) ==
    /\ mounted /\ ~failed
    /\ Render.panel = "Organizations"
    /\ organizations' = value
    /\ call' = NoCall
    /\ UNCHANGED <<fixedVars, routerVars, sessionVars, effectVars>>
    /\ UNCHANGED <<teams, keys, userModels>>

\* the steps of the component itself, the sidebar choosing among pages
ComponentSteps(pages) ==
    \/ MountEffects
    \/ DecodeEffect
    \/ LoaderEffect
    \/ \E newPage \in pages : UpdatePage(newPage)
    \/ \E role \in ChildRoles : ChildSetUserRole(role)
    \/ ChildSetTeams(<<A_team2>>)
    \/ ChildSetKeys(<<A_key>>)
    \/ ChildSetUserEmail(S_email)
    \/ ChildSetOrganizations(<<A_org>>)

\* the steps of the fetches in flight
FetchSteps ==
    \/ \E req \in BagToSet(pending) : \E answer \in Answers(req.kind) :
          FetchComplete(req, answer)
    \/ \E req \in BagToSet(pending) : FetchFail(req)

Next == ComponentSteps(SidebarPages) \/ FetchSteps

Spec == Init /\ [][Next]_vars

\* The router under every page identifier, for a visitor who holds no access
\* token: nothing is fetched, so no fetch is ever in flight.
InitRouter == Start(RouterJars, RouterSearches)

NextRouter == ComponentSteps(PageInputs)

SpecRouter == InitRouter /\ [][NextRouter]_vars

-----------------------------------------------------------------------------
(* formatUserRole on its own, over role strings of every kind *)

KnownRoles ==
    { R_app_owner, R_demo_app_owner, R_app_admin, R_proxy_admin, R_proxy_admin_viewer,
      R_org_admin, R_internal_user, R_internal_viewer, R_app_user }

\* the longest role string made up freely from RoleAlphabet
MaxRoleLen == 2

RoleAlphabet == { "a", "P", "_", " " }

FreeRoles == UNION { [1..n -> RoleAlphabet] : n \in 1..MaxRoleLen }

UpperAt(s, i) == [s EXCEPT ![i] = UpperChar(s[i])]

\* the known roles, the same with one letter or every letter in upper case,
\* with a character more or a character less, free strings, and no string
RoleInputs ==
    KnownRoles
    \cup UNION { { UpperAt(r, i) : i \in 1..Len(r) } : r \in KnownRoles }
    \cup { [i \in 1..Len(r) |-> UpperChar(r[i])] : r \in KnownRoles }
    \cup { r \o <<"s">> : r \in KnownRoles }
    \cup { SubSeq(r, 1, Len(r) - 1) : r \in KnownRoles }
    \cup FreeRoles
    \cup { <<>>, Undefined, Null }

InitFormat == Start({<<>>}, {<<>>}) /\ ~historySync

CallFormat(role) ==
    /\ call = NoCall
    /\ call' = [fn |-> "formatUserRole", arg |-> role, ret |-> formatUserRole(role)]
    /\ UNCHANGED <<fixedVars, routerVars, sessionVars, collectionVars, effectVars>>

NextFormat == \E role \in RoleInputs : CallFormat(role)

SpecFormat == InitFormat /\ [][NextFormat]_vars

-----------------------------------------------------------------------------
(* Properties of the reference-data loader *)

LoaderKinds == { "fetchUserModels", "fetchTeams", "fetchOrganizations" }

IssuedKinds == { req.kind : req \in issued }

\* the three values the loader's last run saw were all non-null and non-empty
AllPresent(deps) == Truthy(deps[1]) /\ Truthy(deps[2]) /\ deps[3] # ""

\* the loader has run again since the first commit, on a change of its values
Reissued == mounted /\ loaderDeps # <<Null, loaderDeps[2], "">>

\* C1 as stated: every fetch the loader issued was issued with accessToken,
\* userID and userRole all non-null and non-empty, and a run that a change of
\* one of the three triggered issued all three fetches.
C1_AllThreeGuardEachFetch ==
    /\ \A req \in issued : AllPresent(loaderDeps)
    /\ Reissued => IssuedKinds = LoaderKinds

\* C1 amended: fetchUserModels and fetchTeams are issued only with accessToken,
\* userID and userRole all non-null and non-empty; fetchOrganizations is issued
\* whenever accessToken alone is non-empty; a run of the loader issues exactly
\* the fetches whose condition holds, each with the values the run saw, so it
\* issues all three exactly when all three values are present.
C1_FetchGuards ==
    /\ ("fetchUserModels" \in IssuedKinds) = AllPresent(loaderDeps)
    /\ ("fetchTeams" \in IssuedKinds) = AllPresent(loaderDeps)
    /\ ("fetchOrganizations" \in IssuedKinds) = Truthy(loaderDeps[1])
    /\ \A req \in issued :
          /\ req.accessToken = loaderDeps[1]
          /\ req.kind # "fetchOrganizations" =>
                req.userID = loaderDeps[2] /\ req.userRole = loaderDeps[3]
    /\ Cardinality(issued) = Cardinality(IssuedKinds)

\* a run triggered by the decoded token issued fetchOrganizations alone, the
\* URL carrying no userID
C1_Witness ==
    /\ Reissued
    /\ IssuedKinds = {"fetchOrganizations"}
    /\ userID = Null
    /\ userRole = "Admin"
    /\ accessToken = S_key

-----------------------------------------------------------------------------
(* Properties of the session bootstrap *)

\* the payload of the token cookie, as the decode effect reads it
CookiePayload == jwtDecode(getCookie(jar, N_token))

\* this step is a run of the decode effect
DecodeRuns == tokenDeps' # tokenDeps

\* C2: when the token decodes to a payload whose user_role is
\* "proxy_admin_viewer", the run of the decode effect leaves the page state at
\* "usage", whatever the page query parameter and the page state were.
C2_ViewerLandsOnUsage ==
    [][(DecodeRuns /\ CookiePayload.kind = "object"
            /\ CookiePayload.user_role = R_proxy_admin_viewer) => page' = P_usage]_vars

\* the viewer's token has been decoded and the page is "usage" under a URL whose
\* page parameter names another page
C2_Witness ==
    /\ tokenDeps = T_viewer
    /\ userRole = "Admin Viewer"
    /\ page = P_usage
    /\ Get(ParseQuery(search), N_page) = P_organizations

NonNull(v) == v # Null /\ v # Undefined

\* the cookie was present, the decode effect has run on its token and got a
\* payload object out of it
DecodedCookie ==
    /\ getCookie(jar, N_token) # Null
    /\ mounted
    /\ tokenDeps = getCookie(jar, N_token)
    /\ CookiePayload.kind = "object"

C7_SetIffDecodedKey ==
    NonNull(accessToken) <=> (DecodedCookie /\ NonNull(CookiePayload.key))

C7_OnlyDecodeWrites == accessToken' # accessToken => DecodeRuns

\* C7: accessToken is non-null exactly when the token cookie was present, has
\* been decoded into a payload and the payload carried a key; and no step other
\* than the decode effect (no page transition, fetch completion or child
\* setter) changes accessToken.
C7_AccessTokenFromCookie == [](C7_SetIffDecodedKey) /\ [][C7_OnlyDecodeWrites]_vars

\* the key of a decoded cookie, here one whose value the cookie reader cut at
\* its "=" padding, is the access token, pages and fetches having gone by
C7_Witness ==
    /\ jar = TokenCookie(T_noRole) \o <<"=", "=">>
    /\ accessToken = S_key
    /\ page = P_special
    /\ organizations # <<>>

-----------------------------------------------------------------------------
(* Properties of the render *)

BarePanel == [navbar |-> FALSE, sidebar |-> FALSE, panel |-> "UserDashboard"]

\* C10 as stated: whenever the URL carries an invitation_id parameter the view
\* is the UserDashboard panel alone, and the selection by page applies only
\* when the parameter is absent.
C10_InvitationPresent ==
    IF Get(ParseQuery(search), N_invitation_id) # Null
    THEN Render = BarePanel
    ELSE Render = [navbar |-> TRUE, sidebar |-> TRUE, panel |-> Panel(page)]

\* C10 amended: whenever the invitation_id parameter is present and non-empty
\* the view is the UserDashboard panel alone, with neither navbar nor sidebar,
\* whatever the page state is; when it is absent or empty the view is the
\* navbar, the sidebar and the panel selected by the page state.
C10_InvitationNonEmpty ==
    IF Truthy(Get(ParseQuery(search), N_invitation_id))
    THEN Render = BarePanel
    ELSE Render = [navbar |-> TRUE, sidebar |-> TRUE, panel |-> Panel(page)]

\* under an invitation the viewer was redirected to "usage" and the view is
\* still the UserDashboard panel alone
C10_Witness ==
    /\ Get(ParseQuery(search), N_invitation_id) = S_invite1
    /\ userRole = "Admin Viewer"
    /\ page = P_usage
    /\ Render = BarePanel

-----------------------------------------------------------------------------
(* Properties of the page router *)

\* every value the parameters hold under name, in order
RECURSIVE GetAll(_, _)
GetAll(params, name) ==
    IF params = <<>> THEN <<>>
    ELSE (IF Head(params).name = name THEN <<Head(params).value>> ELSE <<>>)
            \o GetAll(Tail(params), name)

\* the page parameter of the URL as it stands
UrlPage == Get(ParseQuery(search), N_page)

\* the latest step was the call updatePage(X)
Called(X) == call.fn = "updatePage" /\ call.arg = X

\* C3: for any string X, updatePage(X) leaves the URL with one page parameter,
\* equal to X, and the render that follows selects the panel of X and of no
\* other known identifier, or the Usage panel when X is no known identifier.
C3_UpdatePageSelectsPanel ==
    \A X \in PageInputs :
        Called(X) =>
            /\ GetAll(ParseQuery(search), N_page) = <<X>>
            /\ Render.navbar /\ Render.sidebar
            /\ Render.panel = Panel(X)
            /\ X \in KnownPages =>
                  /\ Render.panel # "Usage"
                  /\ \A Y \in KnownPages \ {X} : Panel(Y) # Render.panel
            /\ X \notin KnownPages => Render.panel = "Usage"

\* updatePage was given a string of characters the query string encodes: the
\* URL carries it and the Usage panel is shown
C3_Witness ==
    /\ Called(P_special)
    /\ UrlPage = P_special
    /\ Render.panel = "Usage"
    /\ Render.sidebar

\* C4: after updatePage(X) for a known page identifier X ("models" among
\* them), the initial page state derived from the resulting URL, as on a
\* reload, is X.
C4_ReloadRoundTrip ==
    \A X \in KnownPages : Called(X) => InitialPage(ParseQuery(search)) = X

\* the URL written by updatePage("models") reloads into "models", next to the
\* parameters the URL already had
C4_Witness ==
    /\ Called(P_models)
    /\ InitialPage(ParseQuery(search)) = P_models
    /\ Get(ParseQuery(search), N_userID) = S_user1
    /\ Len(ParseQuery(search)) > 1

\* C6: at mount the page state is "api-keys" when the URL has no page
\* parameter, and the value of the parameter when it has a non-empty one.
C6_InitialPage ==
    ~mounted =>
        /\ UrlPage = Null => page = P_api_keys
        /\ Truthy(UrlPage) => page = UrlPage

\* a first render under a URL without a page parameter
C6_Witness ==
    /\ ~mounted
    /\ UrlPage = Null
    /\ search # <<>>
    /\ page = P_api_keys

\* C9: updatePage(X) rewrites only the page parameter: every other parameter
\* of the URL (userID and invitation_id among them) keeps its place and its
\* value and none is added, and the session state and the reference
\* collections are as they were.
C9_UpdatePageFrame ==
    [][call'.fn = "updatePage" =>
          /\ Without(ParseQuery(search'), N_page) = Without(ParseQuery(search), N_page)
          /\ userRole' = userRole
          /\ accessToken' = accessToken
          /\ premiumUser' = premiumUser
          /\ userEmail' = userEmail
          /\ teams' = teams
          /\ organizations' = organizations
          /\ userModels' = userModels
          /\ keys' = keys]_vars

\* a page transition happened in a loaded session, under a URL with two userID
\* parameters, one of them written with an escape
C9_Witness ==
    /\ Called(P_special)
    /\ UrlPage = P_special
    /\ GetAll(ParseQuery(search), N_userID) = << <<"u", "=", "1">>, <<"u", "2">> >>
    /\ accessToken = S_key
    /\ userRole = "Admin"
    /\ premiumUser = "true"
    /\ userEmail = S_email
    /\ teams = <<A_team>>
    /\ keys = <<A_key>>
    /\ organizations = <<A_org>>
    /\ userModels = <<A_models>>

-----------------------------------------------------------------------------
(* Properties of formatUserRole *)

\* the documented label of each known raw role
RoleLabel(role) ==
    CASE role \in {R_app_owner, R_demo_app_owner} -> "App Owner"
      [] role \in {R_app_admin, R_proxy_admin} -> "Admin"
      [] role = R_proxy_admin_viewer -> "Admin Viewer"
      [] role = R_org_admin -> "Org Admin"
      [] role = R_internal_user -> "Internal User"
      [] role = R_internal_viewer -> "Internal Viewer"
      [] role = R_app_user -> "App User"

FormatCalled == call.fn = "formatUserRole"

\* C5 as stated: formatUserRole returns the documented label for every raw
\* role of the known set, "Unknown Role" for any non-empty string outside the
\* set and "Undefined Role" for the empty string and for undefined.
C5_LabelsOfKnownSetOnly ==
    FormatCalled =>
        CASE call.arg \in KnownRoles -> call.ret = RoleLabel(call.arg)
          [] call.arg \in {<<>>, Undefined} -> call.ret = "Undefined Role"
          [] call.arg = Null -> TRUE
          [] OTHER -> call.ret = "Unknown Role"

\* C5 amended: formatUserRole returns the documented label for every string
\* whose lower-case form is a raw role of the known set (so for the known
\* roles themselves and for their spellings in other letter case),
\* "Unknown Role" for any other non-empty string and "Undefined Role" for the
\* empty string and for undefined.
C5_LabelsUpToLetterCase ==
    FormatCalled =>
        CASE call.arg \in {<<>>, Undefined} -> call.ret = "Undefined Role"
          [] call.arg = Null -> TRUE
          [] ToLowerCase(call.arg) \in KnownRoles ->
                call.ret = RoleLabel(ToLowerCase(call.arg))
          [] OTHER -> call.ret = "Unknown Role"

\* formatUserRole was given a known role spelled with a capital and returned
\* the label of the role
C5_Witness ==
    /\ FormatCalled
    /\ call.arg = UpperAt(R_proxy_admin_viewer, 1)
    /\ call.arg \notin KnownRoles
    /\ call.ret = "Admin Viewer"

-----------------------------------------------------------------------------
(* Properties of the fetches in flight *)

\* the collection each fetch is documented to fill
OwnCollection(kind) ==
    CASE kind = "fetchUserModels" -> "userModels"
      [] kind = "fetchTeams" -> "teams"
      [] kind = "fetchOrganizations" -> "organizations"

\* the collections other than this one are the same in both records
SameExcept(before, after, name) ==
    \A other \in (DOMAIN before) \ {name} : after[other] = before[other]

CollectionsAfter ==
    [teams |-> teams', keys |-> keys', organizations |-> organizations',
     userModels |-> userModels']

\* this step ends a fetch in flight
FetchEnds(req) == pending' = pending (-) SetToBag({req})

\* a step that ends a fetch changes at most the collection of the fetch
OwnCollectionOnly ==
    \A req \in BagToSet(pending) :
        FetchEnds(req) => SameExcept(Collections, CollectionsAfter, OwnCollection(req.kind))

\* the fetches of the loader's last run that are in flight complete to the same
\* collections in either order, pair by pair
CompletionsCommute ==
    \A r1, r2 \in issued :
        (r1 # r2 /\ BagIn(r1, pending) /\ BagIn(r2, pending)) =>
            \A a1 \in Answers(r1.kind), a2 \in Answers(r2.kind) :
                Settle(Settle(Collections, r1.kind, a1), r2.kind, a2)
                    = Settle(Settle(Collections, r2.kind, a2), r1.kind, a1)

FetchPending == pending # EmptyBag

\* C8 as stated: the fetches of one run of the loader are independent, each
\* completion writing its own collection only, so that their completions
\* commute, and updatePage can be called (with any argument: the rest of
\* UpdatePage assigns and asks nothing) in every state in which one of them
\* is pending.
C8_UpdatePageWheneverPending ==
    /\ [](CompletionsCommute /\ (FetchPending => UpdatePageCallable))
    /\ [][OwnCollectionOnly]_vars

\* C8 amended: the fetches of one run of the loader are independent, each
\* completion writing its own collection only, so that their completions
\* commute, and updatePage can be called while any of them is pending in
\* every state whose view has the sidebar (that is, outside the invitation
\* view, which has no sidebar to call it).
C8_FetchesIndependent ==
    /\ [](CompletionsCommute /\ ((FetchPending /\ Render.sidebar) => UpdatePageCallable))
    /\ [][OwnCollectionOnly]_vars

\* a page transition was made with the models and the teams arrived and the
\* fetch of the organizations still in flight
C8_Witness ==
    /\ Called(P_special)
    /\ userModels = <<A_models>>
    /\ teams = <<A_team>>
    /\ organizations = <<>>
    /\ \E req \in BagToSet(pending) : req.kind = "fetchOrganizations"

====
